---- MODULE Spec2Model ----
(***************************************************************************)
(* Model of the question prefetch cache of app.py: the bounded queue       *)
(* pregunta_cache, the background thread precargar_preguntas that refills  *)
(* it, the generator generar_pregunta and the consumer entry point         *)
(* obtener_pregunta_cache, called by request threads.                      *)
(***************************************************************************)
EXTENDS Integers, Sequences, FiniteSets, TLC

(* ----------------------------- bounds ---------------------------------- *)
\* number of request threads, each calling obtener_pregunta_cache once
NConsumers == 2
\* number of generator responses that are not a complete JSON question
MaxBad == 1
\* number of requests to /quiz in a run of the quiz
MaxRequests == 5

\* (CACHE_SIZE, CACHE_MIN): the configurations explored, scaled down from
\* (40, 10) with CACHE_MIN < CACHE_SIZE kept.  The second is the scenario
\* configuration capacity = 3, lowWatermark = 1.
Configs == {<<4, 2>>, <<3, 1>>}

Consumers == 1..NConsumers
\* thread id of the worker, used in the identity of the objects it creates
WorkerId == 0

VARIABLES
    maxsize,         \* pregunta_cache.maxsize
    cache_min,       \* CACHE_MIN
    pregunta_cache,  \* the queue: sequence of items, head first
    wpc,             \* position of precargar_preguntas
    pregunta,        \* local variable pregunta of precargar_preguntas
    wnext,           \* number of valid objects the worker's generator calls returned
    cpc,             \* position of each request thread
    result,          \* what obtener_pregunta_cache gave each request thread
    via,             \* path on which the result was obtained
    expired,         \* the 10 s of get(timeout=10) have passed
    nonemptyAtCall,  \* qsize() > 0 when the thread called obtener_pregunta_cache
    gencalls,        \* generator calls made by each request thread
    genkind,         \* kind of response the thread's generator call received
    offered,         \* object put on the empty queue while the thread alone waited
    nbad,            \* responses so far that were not a complete JSON question
    enqueued,        \* identities of all objects ever put into the cache
    session,         \* the Flask session of the one quiz user
    qpc,             \* position of quiz() in the request being handled
    req,             \* the request being handled, or the last one handled
    page,            \* the response to the last request handled
    fetches,         \* calls of obtener_pregunta_cache made for that request
    nreq             \* number of requests so far

vars == <<maxsize, cache_min, pregunta_cache, wpc, pregunta, wnext,
          cpc, result, via, expired, nonemptyAtCall, gencalls, genkind, offered, nbad,
          enqueued, session, qpc, req, page, fetches, nreq>>

quizvars == <<session, qpc, req, page, fetches, nreq>>
cfgvars == <<maxsize, cache_min>>
workervars == <<wpc, pregunta, wnext>>
consvars == <<cpc, result, via, expired, nonemptyAtCall, gencalls, genkind, offered>>

None == "None"

(* ------------------------ the generator response ------------------------ *)
\* keys of the JSON object the prompt asks for
JsonKeys == {"Pregunta", "Codigo", "Respuesta correcta", "Explicacion"}

\* response.text as a sequence of tokens: optional fences around a body
ObjTexts == { <<"obj">>, <<"FENCE_JSON", "obj", "FENCE">>, <<"FENCE", "obj", "FENCE">>,
              <<"FENCE_JSON", "obj">> }
OtherTexts == { <<"garbage">> }

Raw(raises, text, keys, resp) == [raises |-> raises, text |-> text, keys |-> keys, resp |-> resp]

\* What client.models.generate_content can do: raise (transport or remote
\* failure), or return a text; when the text holds a JSON object, keys is the
\* set of keys it has and resp the type of its "Respuestas" value.  The
\* responses explored: the complete object under each fencing, the object
\* without "Respuesta correcta", the object whose answers are one string, a
\* text that is no JSON, and the failure of the call.
RawResponses ==
    { Raw(TRUE, <<>>, {}, "other") }
    \cup { Raw(FALSE, t, {}, "other") : t \in OtherTexts }
    \cup { Raw(FALSE, t, JsonKeys, "list") : t \in ObjTexts }
    \cup { Raw(FALSE, <<"obj">>, JsonKeys \ {"Respuesta correcta"}, "list") }
    \cup { Raw(FALSE, <<"obj">>, JsonKeys, "str") }

\* a response that is a JSON object with every key and a list of answers
Complete(raw) ==
    /\ ~raw.raises
    /\ raw.keys = JsonKeys
    /\ raw.resp = "list"
    /\ "obj" \in {raw.text[i] : i \in 1..Len(raw.text)}

\* text cleaning: strip a leading json fence, a leading fence, a trailing fence
StripJsonFence(t) == IF Len(t) > 0 /\ t[1] = "FENCE_JSON" THEN Tail(t) ELSE t
StripFence(t) == IF Len(t) > 0 /\ t[1] = "FENCE" THEN Tail(t) ELSE t
StripEnd(t) == IF Len(t) > 0 /\ t[Len(t)] = "FENCE" THEN SubSeq(t, 1, Len(t) - 1) ELSE t
Clean(t) == StripEnd(StripFence(StripJsonFence(t)))

\* json.loads succeeds on a single JSON value; .get works on an object only
ParsesToDict(t) == Clean(t) = <<"obj">>

\* pregunta_json.get(key): the value, or None when the key is absent
JsonGet(raw, key) == IF key \in raw.keys THEN "v" ELSE None

\* the list built from "Respuestas"
Respuestas(raw) ==
    CASE raw.resp = "list" -> "list"
      [] raw.resp = "str"  -> "split"
      [] OTHER             -> "empty"

\* generar_pregunta on a response: raised tells whether the call raised, value
\* is the dictionary returned otherwise
generar_pregunta(raw) ==
    IF raw.raises
    THEN [raised |-> TRUE, value |-> [exception |-> "generate_content"]]
    ELSE IF ParsesToDict(raw.text)
    THEN [raised |-> FALSE,
          value |-> [pregunta |-> JsonGet(raw, "Pregunta"),
                     codigo |-> JsonGet(raw, "Codigo"),
                     respuestas |-> Respuestas(raw),
                     respuesta_correcta |-> JsonGet(raw, "Respuesta correcta"),
                     explicacion |-> IF "Explicacion" \in raw.keys THEN "v" ELSE ""]]
    ELSE [raised |-> FALSE,
          value |-> [error |-> "No se pudo extraer el JSON",
                     detalle |-> raw.text[1], texto |-> raw.text]]

\* a test that lets every dictionary through
IsValid_any(d) == TRUE
\* the worker's test before caching (every value here is a dict)
IsValid(d) == "pregunta" \in DOMAIN d /\ "codigo" \in DOMAIN d

\* an object: the dictionary d with its identity oid
Item(oid, d) == [oid |-> oid, d |-> d]
NoOid == <<WorkerId, 0>>
NoItem == [oid |-> NoOid, d |-> [none |-> None]]

(* ------------------------------ the queue ------------------------------- *)
\* qsize that does not see the queue's items
qsize_lost(q) == 0
qsize(q) == Len(q)
\* put blocks while the queue is full
Full(q) == qsize(q) >= maxsize
QPut(q, x) == Append(q, x)
\* get of a LIFO queue: the newest item
QGet_last(q) == [item |-> q[Len(q)], rest |-> SubSeq(q, 1, Len(q) - 1)]
\* get that returns the head and leaves it in the queue
QGet_peek(q) == [item |-> Head(q), rest |-> q]
\* get removes and returns the head
QGet(q) == [item |-> Head(q), rest |-> Tail(q)]

(* ----------------------------- the session ------------------------------ *)
\* the key is not in the session
Missing == [missing |-> TRUE]
\* the session with its keys puntaje, total, pregunta_actual, errores; errores
\* is the length of the list.  has tells whether the key puntaje is there.
Session(has, puntaje, total, actual, errores) ==
    [has |-> has, puntaje |-> puntaje, total |-> total, pregunta_actual |-> actual,
     errores |-> errores]
\* the empty session: at the first visit and after session.clear()
NoSession == Session(FALSE, 0, 0, Missing, 0)

(* ------------------------------- Init ----------------------------------- *)
Init ==
    /\ \E cfg \in Configs : maxsize = cfg[1] /\ cache_min = cfg[2]
    /\ pregunta_cache = <<>>
    /\ wpc = "check"
    /\ pregunta = NoItem
    /\ wnext = 0
    /\ cpc = [c \in Consumers |-> "idle"]
    /\ result = [c \in Consumers |-> NoItem]
    /\ via = [c \in Consumers |-> "none"]
    /\ expired = [c \in Consumers |-> FALSE]
    /\ nonemptyAtCall = [c \in Consumers |-> FALSE]
    /\ gencalls = [c \in Consumers |-> 0]
    /\ genkind = [c \in Consumers |-> "none"]
    /\ offered = [c \in Consumers |-> NoOid]
    /\ nbad = 0
    /\ enqueued = {}
    /\ session = NoSession
    /\ qpc = "idle"
    /\ req = [method |-> "GET", respuesta |-> None]
    /\ page = "none"
    /\ fetches = 0
    /\ nreq = 0

\* the generator may answer raw now: the answers that are not the complete
\* object are bounded
MayAnswer(raw) == Complete(raw) \/ nbad < MaxBad
Count(raw) == IF Complete(raw) THEN nbad ELSE nbad + 1


\* how a response ends a generator call
Kind(raw) ==
    CASE raw.raises               -> "raise"
      [] ~ParsesToDict(raw.text)  -> "unparsable"
      [] OTHER                    -> "object"

(* ------------------------ precargar_preguntas --------------------------- *)
\* a size test that always asks for more
BelowMin_always(q) == TRUE
\* the size test with the watermark off by one
BelowMin_off(q) == qsize(q) < cache_min - 1
\* while True: if pregunta_cache.qsize() < CACHE_MIN: ... else: time.sleep(2)
BelowMin(q) == qsize(q) < cache_min

WorkerCheck ==
    /\ wpc = "check"
    /\ wpc' = IF BelowMin(pregunta_cache) THEN "gen" ELSE "sleep"
    /\ UNCHANGED <<cfgvars, quizvars, pregunta_cache, pregunta, wnext, consvars, nbad, enqueued>>

\* the loop without its try/except: the exception ends the thread
OnException_uncaught == "dead"
\* where the loop continues when generar_pregunta raises: except Exception: pass
OnException == "check"

\* pregunta = generar_pregunta(), then the validity test
WorkerGen(raw) ==
    /\ wpc = "gen"
    /\ MayAnswer(raw)
    /\ nbad' = Count(raw)
    /\ LET out == generar_pregunta(raw) IN
       IF out.raised
       THEN /\ wpc' = OnException
            /\ UNCHANGED <<pregunta, wnext>>
       ELSE /\ pregunta' = Item(<<WorkerId, wnext + 1>>, out.value)
            /\ wnext' = IF IsValid(out.value) THEN wnext + 1 ELSE wnext
            /\ IF IsValid(out.value)
               THEN wpc' = "put"
               ELSE wpc' = "check"
    /\ UNCHANGED <<cfgvars, quizvars, pregunta_cache, consvars, enqueued>>

\* c is the only thread waiting inside get
SoleWaiter(c) == {d \in Consumers : cpc[d] = "waiting"} = {c}

\* pregunta_cache.put(pregunta): blocks while the queue is full; with watch,
\* the put on the empty queue is noted for the thread that alone waits
Put(watch) ==
    /\ wpc = "put"
    /\ ~Full(pregunta_cache)
    /\ pregunta_cache' = QPut(pregunta_cache, pregunta)
    /\ enqueued' = enqueued \cup {pregunta.oid}
    /\ wpc' = "check"
    /\ offered' = [c \in Consumers |->
                     IF watch /\ SoleWaiter(c) /\ ~expired[c] /\ offered[c] = NoOid
                        /\ Len(pregunta_cache) = 0
                     THEN pregunta.oid ELSE offered[c]]
    /\ UNCHANGED <<cfgvars, quizvars, pregunta, wnext, cpc, result, via, expired, nonemptyAtCall,
                   gencalls, genkind, nbad>>

WorkerPut == Put(FALSE)

WorkerPutWatched == Put(TRUE)

\* time.sleep(2) returns
WorkerWake ==
    /\ wpc = "sleep"
    /\ wpc' = "check"
    /\ UNCHANGED <<cfgvars, quizvars, pregunta_cache, pregunta, wnext, consvars, nbad, enqueued>>

Worker == WorkerCheck \/ (\E raw \in RawResponses : WorkerGen(raw)) \/ WorkerPut \/ WorkerWake

(* ----------------------- obtener_pregunta_cache ------------------------- *)
\* a request thread calls obtener_pregunta_cache()
Call(c) ==
    /\ cpc[c] = "idle"
    /\ cpc' = [cpc EXCEPT ![c] = "get"]
    /\ nonemptyAtCall' = [nonemptyAtCall EXCEPT ![c] = qsize(pregunta_cache) > 0]
    /\ UNCHANGED <<cfgvars, quizvars, pregunta_cache, workervars, result, via, expired, gencalls,
                   genkind, offered, nbad, enqueued>>

\* the thread takes the head of the queue and returns it
Take(c) ==
    /\ result' = [result EXCEPT ![c] = QGet(pregunta_cache).item]
    /\ pregunta_cache' = QGet(pregunta_cache).rest
    /\ via' = [via EXCEPT ![c] = "cache"]
    /\ cpc' = [cpc EXCEPT ![c] = "done"]

\* get that starts waiting without looking at the queue
GetEnter_wait(c) ==
    /\ cpc[c] = "get"
    /\ cpc' = [cpc EXCEPT ![c] = "waiting"]
    /\ UNCHANGED <<result, via, pregunta_cache>>
    /\ UNCHANGED <<cfgvars, quizvars, workervars, expired, nonemptyAtCall, gencalls, genkind, offered, nbad, enqueued>>

\* pregunta_cache.get(timeout=10) takes the queue's lock: an item if there is
\* one, otherwise the thread starts waiting
GetEnter(c) ==
    /\ cpc[c] = "get"
    /\ IF qsize(pregunta_cache) > 0
       THEN Take(c)
       ELSE /\ cpc' = [cpc EXCEPT ![c] = "waiting"]
            /\ UNCHANGED <<result, via, pregunta_cache>>
    /\ UNCHANGED <<cfgvars, quizvars, workervars, expired, nonemptyAtCall, gencalls, genkind, offered, nbad, enqueued>>

\* the waiting thread finds an item (woken by put, or at its deadline)
GetWake(c) ==
    /\ cpc[c] = "waiting"
    /\ qsize(pregunta_cache) > 0
    /\ Take(c)
    /\ UNCHANGED <<cfgvars, quizvars, workervars, expired, nonemptyAtCall, gencalls, genkind, offered, nbad, enqueued>>

\* the 10 seconds of the wait pass
Deadline(c) ==
    /\ cpc[c] = "waiting"
    /\ ~expired[c]
    /\ expired' = [expired EXCEPT ![c] = TRUE]
    /\ UNCHANGED <<cfgvars, quizvars, pregunta_cache, workervars, cpc, result, via, nonemptyAtCall,
                   gencalls, genkind, offered, nbad, enqueued>>

\* get without a timeout: it never raises queue.Empty
RaisesEmpty_never(c) == FALSE
\* get that raises queue.Empty on an empty queue before the deadline
RaisesEmpty_early(c) == qsize(pregunta_cache) = 0
\* get raises queue.Empty: the deadline has passed and the queue is empty
RaisesEmpty(c) == expired[c] /\ qsize(pregunta_cache) = 0

\* except Exception: the thread goes on to the generator
GetTimeout(c) ==
    /\ cpc[c] = "waiting"
    /\ RaisesEmpty(c)
    /\ cpc' = [cpc EXCEPT ![c] = "fallback"]
    /\ UNCHANGED <<cfgvars, quizvars, pregunta_cache, workervars, result, via, expired, nonemptyAtCall,
                   gencalls, genkind, offered, nbad, enqueued>>

\* an except branch that also caches what it generated
FallbackCache_put(q, x) == Append(q, x)
\* what the except branch does with the queue: nothing
FallbackCache(q, x) == q

\* return generar_pregunta() in the except branch: the dictionary is returned,
\* an exception of the call propagates to the caller
Fallback(c, raw) ==
    /\ cpc[c] = "fallback"
    /\ MayAnswer(raw)
    /\ nbad' = Count(raw)
    /\ gencalls' = [gencalls EXCEPT ![c] = @ + 1]
    /\ genkind' = [genkind EXCEPT ![c] = Kind(raw)]
    /\ via' = [via EXCEPT ![c] = "fallback"]
    /\ LET out == generar_pregunta(raw)
           x == Item(<<c, gencalls[c] + 1>>, out.value) IN
       /\ result' = [result EXCEPT ![c] = x]
       /\ cpc' = [cpc EXCEPT ![c] = IF out.raised THEN "raised" ELSE "done"]
       /\ pregunta_cache' = FallbackCache(pregunta_cache, x)
    /\ UNCHANGED <<cfgvars, quizvars, workervars, expired, nonemptyAtCall, offered, enqueued>>

Consumer(c) ==
    Call(c) \/ GetEnter(c) \/ GetWake(c) \/ Deadline(c) \/ GetTimeout(c)
    \/ (\E raw \in RawResponses : Fallback(c, raw))

Next == Worker \/ (\E c \in Consumers : Consumer(c))

Spec == Init /\ [][Next]_vars

\* the call of c is over: it returned, or an exception left it
Over(c) == cpc[c] \in {"done", "raised"}

(* -------------------------------- quiz() -------------------------------- *)
\* what the form can send as respuesta: nothing, the right answer, a wrong one
Respuestas_form == {None, "v", "x"}

\* the request thread is back from obtener_pregunta_cache: its call state is
\* that of a thread that has not called yet
ThreadReset ==
    /\ cpc' = [cpc EXCEPT ![1] = "idle"]
    /\ result' = [result EXCEPT ![1] = NoItem]
    /\ via' = [via EXCEPT ![1] = "none"]
    /\ expired' = [expired EXCEPT ![1] = FALSE]
    /\ nonemptyAtCall' = [nonemptyAtCall EXCEPT ![1] = FALSE]
    /\ gencalls' = [gencalls EXCEPT ![1] = 0]
    /\ genkind' = [genkind EXCEPT ![1] = "none"]
    /\ UNCHANGED offered

\* a request to /quiz arrives; if 'puntaje' not in session: the session is
\* initialised up to the call of obtener_pregunta_cache
QuizRequest(method, respuesta) ==
    /\ qpc = "idle"
    /\ nreq < MaxRequests
    /\ nreq' = nreq + 1
    /\ req' = [method |-> method, respuesta |-> respuesta]
    /\ fetches' = 0
    /\ IF ~session.has
       THEN /\ session' = Session(TRUE, 0, 0, Missing, 0)
            /\ qpc' = "init"
       ELSE /\ qpc' = "body"
            /\ UNCHANGED session
    /\ UNCHANGED <<cfgvars, pregunta_cache, workervars, consvars, nbad, enqueued, page>>

\* session['pregunta_actual'] = obtener_pregunta_cache(); session['errores'] = []
\* An exception of the call ends the request with the 500 page; the session,
\* as far as it was written, is saved with the response.
QuizInitFetched ==
    /\ qpc = "init"
    /\ Over(1)
    /\ fetches' = fetches + 1
    /\ IF cpc[1] = "raised"
       THEN /\ page' = "500"
            /\ qpc' = "idle"
            /\ UNCHANGED session
       ELSE /\ session' = [session EXCEPT !.pregunta_actual = result[1].d, !.errores = 0]
            /\ qpc' = "body"
            /\ UNCHANGED page
    /\ ThreadReset
    /\ UNCHANGED <<cfgvars, pregunta_cache, workervars, nbad, enqueued, req, nreq>>

\* the lookups of the POST branch raise KeyError
PostKeyError ==
    \/ session.pregunta_actual = Missing
    \/ "respuesta_correcta" \notin DOMAIN session.pregunta_actual

\* seleccion.strip() == correcta.strip() raises AttributeError
StripError == req.respuesta # None /\ session.pregunta_actual.respuesta_correcta = None

\* the rest of quiz() up to the next call of obtener_pregunta_cache or to the
\* response
QuizBody ==
    /\ qpc = "body"
    /\ IF req.method = "GET"
       THEN /\ page' = IF session.pregunta_actual = Missing THEN "500" ELSE "quiz"
            /\ qpc' = "idle"
            /\ UNCHANGED session
       ELSE IF PostKeyError
       THEN /\ page' = "500"
            /\ qpc' = "idle"
            /\ UNCHANGED session
       ELSE IF StripError
       THEN /\ session' = [session EXCEPT !.total = @ + 1]
            /\ page' = "500"
            /\ qpc' = "idle"
       ELSE LET right == req.respuesta # None
                         /\ req.respuesta = session.pregunta_actual.respuesta_correcta
                graded == [session EXCEPT
                             !.total = @ + 1,
                             !.puntaje = IF right THEN @ + 1 ELSE @,
                             !.errores = IF right THEN @ ELSE @ + 1] IN
            IF graded.total >= 5
            THEN /\ session' = NoSession
                 /\ page' = "resultado"
                 /\ qpc' = "idle"
            ELSE /\ session' = graded
                 /\ qpc' = "next"
                 /\ UNCHANGED page
    /\ UNCHANGED <<cfgvars, pregunta_cache, workervars, consvars, nbad, enqueued, req,
                   fetches, nreq>>

\* session['pregunta_actual'] = obtener_pregunta_cache() of the POST branch,
\* then the quiz page with that question
QuizNextFetched ==
    /\ qpc = "next"
    /\ Over(1)
    /\ fetches' = fetches + 1
    /\ IF cpc[1] = "raised"
       THEN /\ page' = "500"
            /\ UNCHANGED session
       ELSE /\ session' = [session EXCEPT !.pregunta_actual = result[1].d]
            /\ page' = "quiz"
    /\ qpc' = "idle"
    /\ ThreadReset
    /\ UNCHANGED <<cfgvars, pregunta_cache, workervars, nbad, enqueued, req, nreq>>

\* the request thread runs obtener_pregunta_cache while quiz() is at a call
QuizFetch == qpc \in {"init", "next"} /\ Consumer(1)

Quiz ==
    \/ \E method \in {"GET", "POST"}, respuesta \in Respuestas_form :
          QuizRequest(method, respuesta)
    \/ QuizInitFetched \/ QuizBody \/ QuizNextFetched \/ QuizFetch

\* one quiz user, requests handled one at a time, next to the worker
QuizNext == Worker \/ Quiz

QuizSpec == Init /\ [][QuizNext]_vars

\* the worker next to a single request thread
LiveNext == Worker \/ Consumer(1)

\* the worker thread keeps being scheduled and its generator calls return
LiveSpec == Init /\ [][LiveNext]_vars /\ WF_vars(Worker)

\* the worker next to two request threads
FetchNext == Worker \/ Consumer(1) \/ Consumer(2)

\* the request threads keep being scheduled, time passes for them and their
\* generator calls return; nothing is assumed of the worker
FetchSpec == Init /\ [][FetchNext]_vars /\ WF_vars(Consumer(1)) /\ WF_vars(Consumer(2))

\* the worker, its puts watched, next to two request threads
WakeNext ==
    \/ WorkerCheck \/ (\E raw \in RawResponses : WorkerGen(raw))
    \/ WorkerPutWatched \/ WorkerWake
    \/ Consumer(1) \/ Consumer(2)

WakeSpec == Init /\ [][WakeNext]_vars

(* ------------------------------ properties ------------------------------ *)
\* the identities of the objects in the queue
InCache == {pregunta_cache[i].oid : i \in 1..Len(pregunta_cache)}
\* the request threads whose call returned an item of the queue
FromCache(oid) == {c \in Consumers : via[c] = "cache" /\ result[c].oid = oid}

\* C1: the number of items in pregunta_cache is at least 0 and at most the
\* capacity of the queue, in every reachable state
C1_Capacity ==
    /\ Len(pregunta_cache) >= 0
    /\ Len(pregunta_cache) <= maxsize

\* the worker has filled the queue to the watermark and a consumer has taken
\* an item of it
C1_Witness ==
    /\ Len(pregunta_cache) = cache_min
    /\ \E c \in Consumers : via[c] = "cache"

\* C2: every object ever enqueued is either in the queue exactly once or was
\* returned by exactly one call, never both and never neither; a call that
\* returned from the queue returned an enqueued object
C2_ExactlyOnce ==
    /\ \A oid \in enqueued :
          Cardinality({i \in 1..Len(pregunta_cache) : pregunta_cache[i].oid = oid})
            + Cardinality(FromCache(oid)) = 1
    /\ \A c \in Consumers : via[c] = "cache" => result[c].oid \in enqueued

\* every request thread has an item of the queue, each a different one
C2_Witness ==
    /\ \A c \in Consumers : via[c] = "cache" /\ cpc[c] = "done"
    /\ \A c, d \in Consumers : c # d => result[c].oid # result[d].oid

\* C3 as stated: a call made while the queue held an item never invokes the
\* generator
C3_ImmediateAtCall ==
    \A c \in Consumers : nonemptyAtCall[c] => gencalls[c] = 0

\* C3 amended: a call whose get finds an item when it takes the queue's lock
\* returns the head of the queue at once and has invoked no generator
C3_ImmediateAtGet ==
    [][\A c \in Consumers :
          (cpc[c] = "get" /\ Len(pregunta_cache) > 0 /\ cpc'[c] # "get")
          => /\ cpc'[c] = "done"
             /\ via'[c] = "cache"
             /\ result'[c] = Head(pregunta_cache)
             /\ gencalls'[c] = 0]_vars

\* a call made on a non-empty queue has returned an item without a generator call
C3_Witness ==
    \E c \in Consumers :
        nonemptyAtCall[c] /\ cpc[c] = "done" /\ via[c] = "cache" /\ gencalls[c] = 0

\* the result of a fallback call is what its one generator call produced
FallbackResultMatches(c) ==
    CASE genkind[c] = "raise"      -> cpc[c] = "raised"
      [] genkind[c] = "unparsable" -> cpc[c] = "done" /\ "error" \in DOMAIN result[c].d
      [] genkind[c] = "object"     -> cpc[c] = "done" /\ "pregunta" \in DOMAIN result[c].d
      [] OTHER                     -> FALSE

\* C4: a call started on an empty queue leaves its wait without an item only
\* after the timeout has elapsed; when it is over it either returned an item
\* the worker enqueued, or the timeout elapsed and it invoked the generator
\* exactly once and gave that call's result
C4_TimeoutFallback ==
    \A c \in Consumers : ~nonemptyAtCall[c] =>
        /\ cpc[c] = "fallback" => expired[c]
        /\ Over(c) =>
              \/ via[c] = "cache" /\ result[c].oid \in enqueued /\ gencalls[c] = 0
              \/ /\ via[c] = "fallback"
                 /\ expired[c]
                 /\ gencalls[c] = 1
                 /\ FallbackResultMatches(c)

\* a call started on an empty queue is over by the fallback path
C4_Witness ==
    \E c \in Consumers :
        ~nonemptyAtCall[c] /\ Over(c) /\ via[c] = "fallback" /\ gencalls[c] = 1

\* C5: no item of the queue lacks its correct answer
C5_ValidationGate ==
    \A i \in 1..Len(pregunta_cache) :
        /\ "respuesta_correcta" \in DOMAIN pregunta_cache[i].d
        /\ pregunta_cache[i].d.respuesta_correcta # None

\* some call has taken an item out of the queue
Drained == \E c \in Consumers : via[c] = "cache"

\* C6: from the empty queue, with the worker scheduled fairly and a generator
\* that eventually gives a valid item, the queue reaches CACHE_MIN items
\* unless a consumer drains it
C6_WatermarkLiveness == <>(Drained \/ Len(pregunta_cache) >= cache_min)

\* the worker has filled the queue to the watermark, no consumer took an item
C6_Witness ==
    /\ ~Drained
    /\ cache_min > 0
    /\ Len(pregunta_cache) >= cache_min
    /\ enqueued # {}

\* some request thread has called obtener_pregunta_cache
ConsumerActive == \E c \in Consumers : cpc[c] # "idle"

\* C7: with capacity 3 and watermark 1, a generator that only gives the
\* complete item and no consumer activity, the queue eventually holds 3 items
C7_FillToCapacity ==
    <>(\/ maxsize # 3 \/ cache_min # 1
       \/ nbad > 0
       \/ ConsumerActive
       \/ Len(pregunta_cache) = 3)

\* C8: the step in which a call's fallback generator call ends leaves the
\* queue as it was, and the queue only ever grows by the worker's put of its
\* own pregunta
C8_FallbackBypassesCache ==
    [][/\ \A c \in Consumers :
            (cpc[c] = "fallback" /\ cpc'[c] # "fallback")
            => pregunta_cache' = pregunta_cache /\ enqueued' = enqueued
       /\ Len(pregunta_cache') > Len(pregunta_cache)
            => /\ wpc = "put" /\ wpc' = "check"
               /\ pregunta_cache' = Append(pregunta_cache, pregunta)]_vars

\* a fallback call returned a cacheable item and the queue does not hold it
C8_Witness ==
    \E c \in Consumers :
        /\ cpc[c] = "done" /\ via[c] = "fallback" /\ IsValid(result[c].d)
        /\ result[c].oid \notin InCache
        /\ Len(pregunta_cache) < cache_min

\* C9: the worker never leaves its loop; an iteration whose generator call
\* does not lead to put (the call raised, or its result failed the validity
\* test) goes straight back to the size check, not to sleep, and leaves the
\* queue unchanged; only a valid result leads to put
C9_WorkerFailureIsolation ==
    [][/\ wpc' \in {"check", "gen", "put", "sleep"}
       /\ (wpc = "gen" /\ wpc' \notin {"gen", "put"})
            => wpc' = "check" /\ pregunta_cache' = pregunta_cache
       /\ (wpc = "gen" /\ wpc' = "put") => IsValid(pregunta'.d)]_vars

\* the worker got a result that failed the validity test and is generating again
C9_Witness ==
    /\ wpc = "gen"
    /\ nbad > 0
    /\ pregunta # NoItem
    /\ ~IsValid(pregunta.d)

\* an item as the data model wants it: question, code, answers and the
\* correct answer are all there
CompleteItem(d) ==
    /\ {"pregunta", "codigo", "respuestas", "respuesta_correcta"} \subseteq DOMAIN d
    /\ d.pregunta # None
    /\ d.codigo # None
    /\ d.respuestas # "empty"
    /\ d.respuesta_correcta # None

\* C10: on the fallback path a failure of the generator call reaches the
\* caller as the exception, and a result that is no complete item reaches it
\* as an error result, never as a normal item
C10_FallbackErrorReporting ==
    \A c \in Consumers : (via[c] = "fallback" /\ Over(c)) =>
        /\ genkind[c] = "raise" <=> cpc[c] = "raised"
        /\ (cpc[c] = "done" /\ ~CompleteItem(result[c].d))
              => "error" \in DOMAIN result[c].d

\* C11: the worker is never inside put with the queue full, so put never
\* waits for a free slot (and no put is ever attempted on a full queue)
C11_PutNeverBlocks == wpc = "put" => ~Full(pregunta_cache)

\* the worker is about to put while a consumer has already taken an item
C11_Witness ==
    /\ wpc = "put"
    /\ Len(pregunta_cache) = cache_min - 1
    /\ \E c \in Consumers : via[c] = "cache"

\* C12: every call that has started is eventually over; a call makes at most
\* one generator call and never both takes an item and calls the generator
C12_FetchCompletes ==
    /\ \A c \in Consumers : (cpc[c] = "get") ~> Over(c)
    /\ [](\A c \in Consumers :
            /\ gencalls[c] <= 1
            /\ via[c] = "cache" => gencalls[c] = 0
            /\ gencalls[c] = 1 => via[c] = "fallback")

\* one call is over by the queue, another by the fallback
C12_Witness ==
    \E c, d \in Consumers :
        /\ Over(c) /\ via[c] = "cache"
        /\ Over(d) /\ via[d] = "fallback"

\* C14: the worker leaves its size test for the generator exactly when the
\* size it sees is below CACHE_MIN and otherwise for the sleep; it reaches
\* the generator and put from nowhere else, and while it sleeps it neither
\* generates nor enqueues
C14_WatermarkGuard ==
    [][/\ (wpc = "check" /\ wpc' # "check") =>
            IF Len(pregunta_cache) < cache_min THEN wpc' = "gen" ELSE wpc' = "sleep"
       /\ (wpc # "gen" /\ wpc' = "gen") =>
            wpc = "check" /\ Len(pregunta_cache) < cache_min
       /\ (wpc # "put" /\ wpc' = "put") => wpc = "gen"
       /\ wpc = "sleep" =>
            /\ wpc' \in {"sleep", "check"}
            /\ wnext' = wnext /\ pregunta' = pregunta /\ nbad' >= nbad
            /\ Len(pregunta_cache') <= Len(pregunta_cache)
            /\ enqueued' = enqueued]_vars

\* the worker sleeps on a queue that is at the watermark
C14_Witness ==
    /\ wpc = "sleep"
    /\ Len(pregunta_cache) >= cache_min
    /\ wnext > 0

C17_CachedItemsHaveKeys ==
    /\ \A i \in 1..Len(pregunta_cache) :
          /\ {"pregunta", "codigo"} \subseteq DOMAIN pregunta_cache[i].d
          /\ "error" \notin DOMAIN pregunta_cache[i].d
    /\ \A c \in Consumers :
          /\ via[c] = "cache" => {"pregunta", "codigo"} \subseteq DOMAIN result[c].d
          /\ (Over(c) /\ "error" \in DOMAIN result[c].d) => via[c] = "fallback"

\* one call has the error dictionary from its fallback, another an item of
\* the queue
C17_Witness ==
    \E c, d \in Consumers :
        /\ cpc[c] = "done" /\ via[c] = "fallback" /\ "error" \in DOMAIN result[c].d
        /\ cpc[d] = "done" /\ via[d] = "cache"

\* C13: a failure of obtener_pregunta_cache is never kept as the question of
\* the session: session['pregunta_actual'] is never the error dictionary, and
\* the quiz page is only answered with a question that has its text
C13_FailureRenderedDistinctly ==
    /\ "error" \notin DOMAIN session.pregunta_actual
    /\ (qpc = "idle" /\ page = "quiz") => "pregunta" \in DOMAIN session.pregunta_actual

\* C18: between requests the session has 0 <= puntaje <= total < 5 and
\* puntaje + len(errores) = total; the result page comes with a cleared
\* session and without a fetch, and every other POST made exactly one call of
\* obtener_pregunta_cache
C18_QuizSessionInvariant ==
    qpc = "idle" =>
        /\ 0 <= session.puntaje
        /\ session.puntaje <= session.total
        /\ session.total < 5
        /\ session.puntaje + session.errores = session.total
        /\ page = "resultado" => (session = NoSession /\ fetches = 0)
        /\ (nreq > 0 /\ req.method = "POST" /\ page # "resultado") => fetches = 1

\* C15 as stated: a waiting call leaves its wait for the fallback only when
\* its deadline has passed and the queue is empty; a call for which the
\* worker put an item while it alone waited, before its deadline, returns
\* that item and invokes no generator
C15_WakeOnEnqueue ==
    [][\A c \in Consumers : (cpc[c] = "waiting" /\ cpc'[c] # "waiting") =>
          /\ cpc'[c] = "fallback" => expired[c] /\ Len(pregunta_cache) = 0
          /\ offered[c] # NoOid =>
                /\ cpc'[c] = "done" /\ via'[c] = "cache"
                /\ result'[c].oid = offered[c]
                /\ gencalls'[c] = 0]_vars

\* C15 amended: the same, for the item that is still in the queue when the
\* waiting call leaves its wait
C15_WakeOnEnqueueUnlessTaken ==
    [][\A c \in Consumers : (cpc[c] = "waiting" /\ cpc'[c] # "waiting") =>
          /\ cpc'[c] = "fallback" => expired[c] /\ Len(pregunta_cache) = 0
          /\ offered[c] \in InCache =>
                /\ cpc'[c] = "done" /\ via'[c] = "cache"
                /\ result'[c].oid = offered[c]
                /\ gencalls'[c] = 0]_vars

\* a call that waited on the empty queue has returned the item the worker
\* put while it alone waited
C15_Witness ==
    \E c \in Consumers :
        /\ cpc[c] = "done" /\ via[c] = "cache"
        /\ offered[c] # NoOid /\ result[c].oid = offered[c]
        /\ gencalls[c] = 0

====
